---- MODULE Spec2Model ----
(***************************************************************************)
(* Model of objdiff-core/src/diff/display.rs: display_diff and its helpers *)
(* display_reloc and display_reloc_name, which render one instruction diff *)
(* as a sequence of DiffText tokens handed one at a time to a sink (cb).   *)
(*                                                                         *)
(* One behaviour of the model is one call of display_diff.  The inputs are *)
(* fixed by Init; every step is one statement of the function, and every   *)
(* sink call is a step of its own in which the sink either returns Ok or   *)
(* returns an error.                                                       *)
(*                                                                         *)
(* Integers keep their width.  TLC's integers are 32-bit, so a u32 / i32   *)
(* is a pair <<hi, lo>> of 16-bit limbs holding its bit pattern and an i64 *)
(* is four such limbs, most significant first.  Rust's +, - and unary -    *)
(* panic on overflow when the build has overflow checks (the debug         *)
(* profile) and wrap when it has none (the release profile); the build is  *)
(* an input of the model (overflow_checks).                                *)
(***************************************************************************)
EXTENDS Integers, Sequences, FiniteSets, TLC

\* ------------------------------------------------------------------ bounds

\* Longest argument list of the enumerated instructions.
MaxArgs == 3

\* ------------------------------------------------------- fixed-width integers

Limb == 2 ^ 16
SignBit == 2 ^ 15

U32(hi, lo) == <<hi, lo>>

\* `a as i32` of a u32 and `a as u32` of an i32 keep the bit pattern.
Negative32(a) == a[1] >= SignBit

wrapping_add32(a, b) ==
    LET lo == a[2] + b[2]
    IN  <<(a[1] + b[1] + (lo \div Limb)) % Limb, lo % Limb>>

wrapping_sub32(a, b) ==
    LET lo == a[2] - b[2]
        borrow == IF lo < 0 THEN 1 ELSE 0
    IN  <<(a[1] - b[1] - borrow) % Limb, lo % Limb>>

\* u32 - u32 overflows exactly when the result would be negative.
sub_overflows_u32(a, b) == a[1] < b[1] \/ (a[1] = b[1] /\ a[2] < b[2])

\* i32 + i32 overflows when both operands have one sign and the sum the other.
add_overflows_i32(a, b) ==
    /\ Negative32(a) = Negative32(b)
    /\ Negative32(wrapping_add32(a, b)) # Negative32(a)

\* i32 - i32 overflows when the operands differ in sign and the difference
\* has not the sign of the minuend.
sub_overflows_i32(a, b) ==
    /\ Negative32(a) # Negative32(b)
    /\ Negative32(wrapping_sub32(a, b)) # Negative32(a)

I64(l3, l2, l1, l0) == <<l3, l2, l1, l0>>

I64_ZERO == I64(0, 0, 0, 0)
I64_MIN == I64(SignBit, 0, 0, 0)
I64_MAX == I64(SignBit - 1, Limb - 1, Limb - 1, Limb - 1)

\* reloc.target.addend.cmp(&0i64)
cmp_zero64(a) ==
    IF a[1] >= SignBit THEN "Less"
    ELSE IF a = I64_ZERO THEN "Equal"
    ELSE "Greater"

\* Two's complement negation: invert every limb, add one, drop the carry.
wrapping_neg64(a) ==
    LET s0 == (Limb - 1 - a[4]) + 1
        s1 == (Limb - 1 - a[3]) + (s0 \div Limb)
        s2 == (Limb - 1 - a[2]) + (s1 \div Limb)
        s3 == (Limb - 1 - a[1]) + (s2 \div Limb)
    IN  <<s3 % Limb, s2 % Limb, s1 % Limb, s0 % Limb>>

\* -i64::MIN is the one negation that overflows.
neg_overflows_i64(a) == a = I64_MIN

HexChars == <<"0", "1", "2", "3", "4", "5", "6", "7",
              "8", "9", "A", "B", "C", "D", "E", "F">>

\* The sixteen hex digits of the 64-bit pattern, most significant first.
HexDigits64(a) ==
    [k \in 1..16 |->
        LET limb == a[((k - 1) \div 4) + 1]
            pos == (k - 1) % 4
        IN  (limb \div (16 ^ (3 - pos))) % 16]

RECURSIVE HexString(_, _, _)
\* The digits from index k on, leading zeros dropped until `started`.
HexString(ds, k, started) ==
    IF k > Len(ds) THEN (IF started THEN "" ELSE "0")
    ELSE IF ds[k] = 0 /\ ~started THEN HexString(ds, k + 1, FALSE)
    ELSE HexChars[ds[k] + 1] \o HexString(ds, k + 1, TRUE)

\* format!("{:#X}", v) of an i64: "0x" and the upper-case hex digits of its
\* two's complement bit pattern.
fmt_alt_upper_hex(v) == "0x" \o HexString(HexDigits64(v), 1, FALSE)

\* ------------------------------------------------------------------ data

\* Option<T>: None is the empty tuple, Some(x) the one-element tuple.
None == <<>>
Some(x) == <<x>>

\* enum DiffText
Basic(text) == <<"Basic", text>>
BasicColor(text, idx) == <<"BasicColor", text, idx>>
Line(n) == <<"Line", n>>
Address(a) == <<"Address", a>>
Opcode(mnemonic, op) == <<"Opcode", mnemonic, op>>
Argument(v, diff) == <<"Argument", v, diff>>
BranchTarget(a) == <<"BranchTarget", a>>
Symbol(sym) == <<"Symbol", sym>>
Spacing(n) == <<"Spacing", n>>
Eol == <<"Eol">>

\* enum ObjInsArg
Arg(v) == <<"Arg", v>>
ArgWithBase(v) == <<"ArgWithBase", v>>
Reloc == <<"Reloc">>
RelocWithBase == <<"RelocWithBase">>
BranchOffset(offset) == <<"BranchOffset", offset>>

Tag(arg) == arg[1]
IsWithBase(arg) == Tag(arg) \in {"ArgWithBase", "RelocWithBase"}
IsRelocArg(arg) == Tag(arg) \in {"Reloc", "RelocWithBase"}

\* enum ObjRelocKind, with the ppc and the mips features both enabled.
PpcSuffixKinds == {"PpcAddr16Lo", "PpcAddr16Hi", "PpcAddr16Ha", "PpcEmbSda21"}
MipsWrapKinds == {"MipsHi16", "MipsLo16", "MipsGot16", "MipsCall16", "MipsGpRel16"}
BareKinds == {"PpcRel24", "PpcRel14", "Mips26"}
ObjRelocKind ==
    PpcSuffixKinds \cup MipsWrapKinds \cup BareKinds \cup {"MipsGpRel32", "Absolute"}

\* struct ObjReloc, with the fields of its target ObjSymbol that are read.
ObjReloc(kind, name, addend) ==
    [kind |-> kind, target |-> [name |-> name, addend |-> addend]]

\* ---------------------------------------------------------------- inputs

SeqsUpTo(S, n) == UNION {[1..k -> S] : k \in 0..n}

\* 0x1000, and -0x20 as an i32.
Addr1000 == U32(0, 4096)
OffMinus20 == U32(Limb - 1, Limb - 32)

ArgValues ==
    {Arg("r3"), ArgWithBase("0x10"), Reloc, RelocWithBase, BranchOffset(OffMinus20)}

BranchFroms == {None, Some([branch_idx |-> 1])}
BranchTos == {None, Some([branch_idx |-> 2])}
Lines == {None, Some(7)}

ObjIns(address, line, args, reloc) ==
    [address |-> address, line |-> line, mnemonic |-> "lwz", op |-> 32,
     args |-> args, reloc |-> reloc]

\* Undecoded rows: no instruction, anything in the other fields.
NoInsInputs ==
    {[ins_diff |-> [ins |-> None, arg_diff |-> ad, branch_from |-> bf, branch_to |-> bt],
      base_addr |-> b] :
        ad \in {<<>>, <<None, Some("diff")>>}, bf \in BranchFroms, bt \in BranchTos,
        b \in {U32(0, 0), Addr1000}}

\* No relocation, a wrapped one and the unsupported one.
StructRelocs ==
    {None, Some(ObjReloc("MipsHi16", "bar", I64(0, 0, 0, 4))),
     Some(ObjReloc("MipsGpRel32", "foo", I64_ZERO))}

InsDiff(ln, as, rl, ad, bf, bt) ==
    [ins_diff |-> [ins |-> Some(ObjIns(Addr1000, ln, as, rl)), arg_diff |-> ad,
                   branch_from |-> bf, branch_to |-> bt],
     base_addr |-> U32(0, 0)]

\* Every argument list up to MaxArgs, in a bare row (no line, no branch, empty
\* arg_diff: every get(i) misses) and in a full one.
StructInputs ==
    {InsDiff(None, as, rl, <<>>, None, None) :
        as \in SeqsUpTo(ArgValues, MaxArgs), rl \in StructRelocs}
    \cup
    {InsDiff(Some(7), as, rl, <<Some("diff"), None, Some("diff")>>,
             Some([branch_idx |-> 1]), Some([branch_idx |-> 2])) :
        as \in SeqsUpTo(ArgValues, MaxArgs), rl \in StructRelocs}

\* Every combination of line, branch_from, branch_to and arg_diff around at
\* most one argument.
FrameInputs ==
    {InsDiff(ln, as, rl, ad, bf, bt) :
        ln \in Lines, as \in SeqsUpTo(ArgValues, 1), rl \in StructRelocs,
        ad \in {<<>>, <<Some("diff")>>}, bf \in BranchFroms, bt \in BranchTos}

\* Every relocation kind with addends of either sign and at both ends of i64.
Addends ==
    {I64_ZERO, I64(0, 0, 0, 16), I64(0, 0, 0, 4),
     I64(Limb - 1, Limb - 1, Limb - 1, Limb - 4),
     I64(Limb - 1, Limb - 1, Limb - 1, Limb - 1),
     I64(0, 1, 0, 43981), I64_MIN, I64_MAX}

RelocInputs ==
    {[ins_diff |-> [ins |-> Some(ObjIns(Addr1000, None, as, Some(ObjReloc(k, "foo", ad)))),
                    arg_diff |-> <<>>, branch_from |-> None, branch_to |-> None],
      base_addr |-> U32(0, 0)] :
        as \in {<<Reloc>>, <<RelocWithBase, Arg("r1")>>}, k \in ObjRelocKind,
        ad \in Addends}

\* Branch offsets, addresses and bases around the ends of the 32-bit ranges.
EdgeOffsets ==
    {OffMinus20, U32(0, 1), U32(Limb - 1, Limb - 1), U32(SignBit, 0),
     U32(SignBit - 1, Limb - 1)}
EdgeAddresses ==
    {Addr1000, U32(SignBit - 1, Limb - 1), U32(SignBit, 0), U32(SignBit, 4096),
     U32(Limb - 1, Limb - 1)}
EdgeBases == {U32(0, 0), U32(0, 1), U32(0, 8192), U32(SignBit, 0)}

ArithInputs ==
    {[ins_diff |-> [ins |-> Some(ObjIns(a, None, <<BranchOffset(o)>>, None)),
                    arg_diff |-> <<>>, branch_from |-> None, branch_to |-> None],
      base_addr |-> b] :
        o \in EdgeOffsets, a \in EdgeAddresses, b \in EdgeBases}

Inputs == NoInsInputs \cup StructInputs \cup FrameInputs \cup RelocInputs \cup ArithInputs

\* ----------------------------------------------------------------- state

VARIABLES
    ins_diff,            \* display_diff's ins_diff: &ObjInsDiff
    base_addr,           \* display_diff's base_addr: u32
    overflow_checks,     \* whether the build panics on integer overflow
    pc,                  \* the statement display_diff is at
    i,                   \* the loop's enumerate() index, from 0
    writing_offset,      \* line 52
    new_writing_offset,  \* line 60
    calls,               \* the tokens the sink was called with, in order
    origin,              \* for each sink call, the source line that made it
    arg_of,              \* for each sink call, the loop index i, -1 outside
    sink_err,            \* the number of the sink call that failed, 0 if none
    result               \* what display_diff returned, or how it ended

vars == <<ins_diff, base_addr, overflow_checks, pc, i, writing_offset,
          new_writing_offset, calls, origin, arg_of, sink_err, result>>

inputs == <<ins_diff, base_addr, overflow_checks>>
locals == <<i, writing_offset, new_writing_offset>>
sink == <<calls, origin, arg_of, sink_err>>

ins == ins_diff.ins[1]
arg == ins.args[i + 1]
reloc == ins.reloc[1]

OK == "Ok"
ERR_SINK == "Err(sink)"
ERR_UNIMPLEMENTED == "Err(unimplemented: mips gp_rel32)"
RUNNING == "running"
Panic(line) == "panic at line " \o ToString(line)

LoopPcs == {"for", "match", "open_paren", "close_paren", "display_reloc",
            "reloc_name", "reloc_addend", "reloc_end"}

Init ==
    /\ \E inp \in Inputs :
        /\ ins_diff = inp.ins_diff
        /\ base_addr = inp.base_addr
    /\ overflow_checks \in BOOLEAN
    /\ pc = "start"
    /\ i = 0
    /\ writing_offset = FALSE
    /\ new_writing_offset = FALSE
    /\ calls = <<>>
    /\ origin = <<>>
    /\ arg_of = <<>>
    /\ sink_err = 0
    /\ result = RUNNING

\* return r / a panic: display_diff is over.
Return(r) == pc' = "done" /\ result' = r

\* cb(tok)?: the sink is called with tok from source line `line`.  It returns
\* Ok(()) and display_diff goes on at `next` ("return": with `return Ok(())`),
\* its locals updated by `upd`; or it returns an error, which `?` returns
\* from display_diff at once.
\* Mutant of cb_then: the sink's error is dropped (`let _ = cb(tok);`) and
\* display_diff goes on.
cb_then_unchecked(tok, line, next, upd) ==
    /\ calls' = Append(calls, tok)
    /\ origin' = Append(origin, line)
    /\ arg_of' = Append(arg_of, IF pc \in LoopPcs THEN i ELSE -1)
    /\ IF next = "return" THEN Return(OK) ELSE pc' = next /\ UNCHANGED result
    /\ upd
    /\ \/ UNCHANGED sink_err
       \/ sink_err' = Len(calls) + 1

cb_then(tok, line, next, upd) ==
    /\ calls' = Append(calls, tok)
    /\ origin' = Append(origin, line)
    /\ arg_of' = Append(arg_of, IF pc \in LoopPcs THEN i ELSE -1)
    /\ \/ /\ IF next = "return" THEN Return(OK) ELSE pc' = next /\ UNCHANGED result
          /\ UNCHANGED sink_err
          /\ upd
       \/ /\ Return(ERR_SINK)
          /\ sink_err' = Len(calls) + 1
          /\ UNCHANGED locals

cb(tok, line, next) == cb_then(tok, line, next, UNCHANGED locals)

\* A statement that calls no sink.
GotoThen(next, upd) == pc' = next /\ UNCHANGED <<sink, result>> /\ upd

Goto(next) == GotoThen(next, UNCHANGED locals)

\* A panic: no sink call, no return value.
PanicAt(line) == Return(Panic(line)) /\ UNCHANGED <<sink, locals>>

\* ----------------------------------------------------------- display_diff

\* ins_diff.arg_diff.get(i).and_then(|o| o.as_ref())
arg_diff_at(k) ==
    IF k + 1 <= Len(ins_diff.arg_diff) THEN ins_diff.arg_diff[k + 1] ELSE None

\* Mutant of NoIns: the early return without its Eol.
NoIns_silent ==
    /\ pc = "start"
    /\ ins_diff.ins = None
    /\ Return(OK)
    /\ UNCHANGED <<inputs, locals, sink>>

\* Lines 38-41: no decoded instruction.
NoIns ==
    /\ pc = "start"
    /\ ins_diff.ins = None
    /\ cb(Eol, 39, "return")
    /\ UNCHANGED inputs

\* Lines 42-44, the instruction has a source line.
EmitLine ==
    /\ pc = "start"
    /\ ins_diff.ins # None
    /\ ins.line # None
    /\ cb(Line(ins.line[1]), 43, "address")
    /\ UNCHANGED inputs

\* Lines 42-44, it has none.
SkipLine ==
    /\ pc = "start"
    /\ ins_diff.ins # None
    /\ ins.line = None
    /\ Goto("address")
    /\ UNCHANGED inputs

\* Line 45: ins.address - base_addr, a u32 subtraction.
EmitAddress ==
    /\ pc = "address"
    /\ IF overflow_checks /\ sub_overflows_u32(ins.address, base_addr)
       THEN PanicAt(45)
       ELSE cb(Address(wrapping_sub32(ins.address, base_addr)), 45, "branch_from")
    /\ UNCHANGED inputs

\* Lines 46-50.
EmitBranchFrom ==
    /\ pc = "branch_from"
    /\ IF ins_diff.branch_from # None
       THEN cb(BasicColor(" ~> ", ins_diff.branch_from[1].branch_idx), 47, "opcode")
       ELSE cb(Spacing(4), 49, "opcode")
    /\ UNCHANGED inputs

\* Lines 51-52.
EmitOpcode ==
    /\ pc = "opcode"
    /\ cb_then(Opcode(ins.mnemonic, ins.op), 51, "for",
               i' = 0 /\ writing_offset' = FALSE /\ UNCHANGED new_writing_offset)
    /\ UNCHANGED inputs

\* Lines 53-56: the first argument is set off from the mnemonic.
LoopSpacing ==
    /\ pc = "for"
    /\ i < Len(ins.args)
    /\ i = 0
    /\ cb_then(Spacing(1), 55, "match",
               new_writing_offset' = FALSE /\ UNCHANGED <<i, writing_offset>>)
    /\ UNCHANGED inputs

\* Lines 57-59: a later argument that follows no pending base gets ", ".
LoopSeparator ==
    /\ pc = "for"
    /\ i < Len(ins.args)
    /\ i > 0 /\ ~writing_offset
    /\ cb_then(Basic(", "), 58, "match",
               new_writing_offset' = FALSE /\ UNCHANGED <<i, writing_offset>>)
    /\ UNCHANGED inputs

\* Lines 57-59: one that follows a pending base gets none.
LoopNoSeparator ==
    /\ pc = "for"
    /\ i < Len(ins.args)
    /\ i > 0 /\ writing_offset
    /\ GotoThen("match", new_writing_offset' = FALSE /\ UNCHANGED <<i, writing_offset>>)
    /\ UNCHANGED inputs

\* Lines 62-65.
MatchArg ==
    /\ pc = "match"
    /\ Tag(arg) = "Arg"
    /\ cb(Argument(arg[2], arg_diff_at(i)), 64, "close_paren")
    /\ UNCHANGED inputs

\* Lines 66-68.
MatchArgWithBase ==
    /\ pc = "match"
    /\ Tag(arg) = "ArgWithBase"
    /\ cb(Argument(arg[2], arg_diff_at(i)), 68, "open_paren")
    /\ UNCHANGED inputs

\* Lines 73 and 76: ins.reloc.as_ref().unwrap(), then the call of
\* display_reloc.  unwrap() panics on None.
MatchReloc ==
    /\ pc = "match"
    /\ IsRelocArg(arg)
    /\ IF ins.reloc = None
       THEN PanicAt(IF Tag(arg) = "Reloc" THEN 73 ELSE 76)
       ELSE Goto("display_reloc")
    /\ UNCHANGED inputs

\* Line 81: (offset + ins.address as i32) - base_addr as i32, in i32.
branch_sum(offset) == wrapping_add32(offset, ins.address)
branch_target(offset) == wrapping_sub32(branch_sum(offset), base_addr)
branch_overflows(offset) ==
    \/ add_overflows_i32(offset, ins.address)
    \/ sub_overflows_i32(branch_sum(offset), base_addr)

\* Lines 80-83.
MatchBranchOffset ==
    /\ pc = "match"
    /\ Tag(arg) = "BranchOffset"
    /\ IF overflow_checks /\ branch_overflows(arg[2])
       THEN PanicAt(81)
       ELSE cb(BranchTarget(branch_target(arg[2])), 82, "close_paren")
    /\ UNCHANGED inputs

\* Lines 69-70 and 77-78.
OpenParen ==
    /\ pc = "open_paren"
    /\ cb_then(Basic("("), IF Tag(arg) = "ArgWithBase" THEN 69 ELSE 77, "close_paren",
               new_writing_offset' = TRUE /\ UNCHANGED <<i, writing_offset>>)
    /\ UNCHANGED inputs

\* Mutant of CloseParen: the pending base is dropped without its ")".
CloseParen_dropped ==
    /\ pc = "close_paren"
    /\ writing_offset
    /\ GotoThen("for", writing_offset' = new_writing_offset /\ i' = i + 1
                       /\ UNCHANGED new_writing_offset)
    /\ UNCHANGED inputs

\* Lines 85-88, a base is pending from the argument before: ")" closes it.
CloseParen ==
    /\ pc = "close_paren"
    /\ writing_offset
    /\ cb_then(Basic(")"), 86, "for",
               writing_offset' = new_writing_offset /\ i' = i + 1
               /\ UNCHANGED new_writing_offset)
    /\ UNCHANGED inputs

\* Lines 85-88, none is pending.
NoCloseParen ==
    /\ pc = "close_paren"
    /\ ~writing_offset
    /\ GotoThen("for", writing_offset' = new_writing_offset /\ i' = i + 1
                       /\ UNCHANGED new_writing_offset)
    /\ UNCHANGED inputs

\* Line 89: the argument list is exhausted.
LoopEnd ==
    /\ pc = "for"
    /\ i >= Len(ins.args)
    /\ Goto("branch_to")
    /\ UNCHANGED inputs

\* Lines 90-92.
EmitBranchTo ==
    /\ pc = "branch_to"
    /\ IF ins_diff.branch_to # None
       THEN cb(BasicColor(" ~>", ins_diff.branch_to[1].branch_idx), 91, "eol")
       ELSE Goto("eol")
    /\ UNCHANGED inputs

\* Lines 93-94.
EmitEol ==
    /\ pc = "eol"
    /\ cb(Eol, 93, "return")
    /\ UNCHANGED inputs

display_diff ==
    \/ NoIns \/ EmitLine \/ SkipLine \/ EmitAddress \/ EmitBranchFrom \/ EmitOpcode
    \/ LoopSpacing \/ LoopSeparator \/ LoopNoSeparator
    \/ MatchArg \/ MatchArgWithBase \/ MatchReloc \/ MatchBranchOffset
    \/ OpenParen \/ CloseParen \/ NoCloseParen \/ LoopEnd
    \/ EmitBranchTo \/ EmitEol

\* ---------------------------------------------------------- display_reloc

\* The literal a match arm of display_reloc emits before display_reloc_name,
\* with the line of that sink call; None for the arms that emit none.
reloc_prefix(kind) ==
    CASE kind = "MipsHi16" -> Some([text |-> "%hi(", line |-> 134])
      [] kind = "MipsLo16" -> Some([text |-> "%lo(", line |-> 140])
      [] kind = "MipsGot16" -> Some([text |-> "%got(", line |-> 146])
      [] kind = "MipsCall16" -> Some([text |-> "%call16(", line |-> 152])
      [] kind = "MipsGpRel16" -> Some([text |-> "%gp_rel(", line |-> 158])
      [] OTHER -> None

\* Mutant of reloc_suffix: the @h and @ha arms carry each other's literal.
reloc_suffix_swapped(kind) ==
    CASE kind = "PpcAddr16Lo" -> Some([text |-> "@l", line |-> 111])
      [] kind = "PpcAddr16Hi" -> Some([text |-> "@ha", line |-> 116])
      [] kind = "PpcAddr16Ha" -> Some([text |-> "@h", line |-> 121])
      [] kind = "PpcEmbSda21" -> Some([text |-> "@sda21", line |-> 126])
      [] kind = "MipsHi16" -> Some([text |-> ")", line |-> 136])
      [] kind = "MipsLo16" -> Some([text |-> ")", line |-> 142])
      [] kind = "MipsGot16" -> Some([text |-> ")", line |-> 148])
      [] kind = "MipsCall16" -> Some([text |-> ")", line |-> 154])
      [] kind = "MipsGpRel16" -> Some([text |-> ")", line |-> 160])
      [] OTHER -> None

\* The literal an arm emits after display_reloc_name.
reloc_suffix(kind) ==
    CASE kind = "PpcAddr16Lo" -> Some([text |-> "@l", line |-> 111])
      [] kind = "PpcAddr16Hi" -> Some([text |-> "@h", line |-> 116])
      [] kind = "PpcAddr16Ha" -> Some([text |-> "@ha", line |-> 121])
      [] kind = "PpcEmbSda21" -> Some([text |-> "@sda21", line |-> 126])
      [] kind = "MipsHi16" -> Some([text |-> ")", line |-> 136])
      [] kind = "MipsLo16" -> Some([text |-> ")", line |-> 142])
      [] kind = "MipsGot16" -> Some([text |-> ")", line |-> 148])
      [] kind = "MipsCall16" -> Some([text |-> ")", line |-> 154])
      [] kind = "MipsGpRel16" -> Some([text |-> ")", line |-> 160])
      [] OTHER -> None

\* The arms that call display_reloc_name: all but MipsGpRel32 and Absolute.
calls_reloc_name(kind) == kind \notin {"MipsGpRel32", "Absolute"}

\* Where display_diff goes on when display_reloc has returned Ok(()): line 77
\* after a RelocWithBase, line 85 after a Reloc.
AfterReloc == IF Tag(arg) = "RelocWithBase" THEN "open_paren" ELSE "close_paren"

\* Lines 107-165, an arm that calls display_reloc_name: its prefix, if any.
RelocPrefix ==
    /\ pc = "display_reloc"
    /\ calls_reloc_name(reloc.kind)
    /\ IF reloc_prefix(reloc.kind) # None
       THEN cb(Basic(reloc_prefix(reloc.kind)[1].text), reloc_prefix(reloc.kind)[1].line,
               "reloc_name")
       ELSE Goto("reloc_name")
    /\ UNCHANGED inputs

\* Mutant of RelocUnimplemented: the arm is a bare one, like Mips26.
RelocUnimplemented_bare ==
    /\ pc = "display_reloc"
    /\ reloc.kind = "MipsGpRel32"
    /\ Goto("reloc_name")
    /\ UNCHANGED inputs

\* Lines 166-169: bail!, which returns an error that the ? at line 73 or 76
\* returns from display_diff.
RelocUnimplemented ==
    /\ pc = "display_reloc"
    /\ reloc.kind = "MipsGpRel32"
    /\ Return(ERR_UNIMPLEMENTED)
    /\ UNCHANGED <<inputs, locals, sink>>

\* Lines 170-172, and the Ok(()) of line 174.
RelocAbsolute ==
    /\ pc = "display_reloc"
    /\ reloc.kind = "Absolute"
    /\ cb(Basic("[INVALID]"), 171, AfterReloc)
    /\ UNCHANGED inputs

\* The arm's literal after display_reloc_name, if any, and the Ok(()) of
\* line 174.
RelocSuffix ==
    /\ pc = "reloc_end"
    /\ IF reloc_suffix(reloc.kind) # None
       THEN cb(Basic(reloc_suffix(reloc.kind)[1].text), reloc_suffix(reloc.kind)[1].line,
               AfterReloc)
       ELSE Goto(AfterReloc)
    /\ UNCHANGED inputs

display_reloc == RelocPrefix \/ RelocUnimplemented \/ RelocAbsolute \/ RelocSuffix

\* ----------------------------------------------------- display_reloc_name

\* Line 98.
NameSymbol ==
    /\ pc = "reloc_name"
    /\ cb(Symbol(reloc.target.name), 98, "reloc_addend")
    /\ UNCHANGED inputs

\* Line 100: format!("+{:#X}", reloc.target.addend)
fmt_positive(addend) == "+" \o fmt_alt_upper_hex(addend)

\* Line 101: format!("-{:#X}", -reloc.target.addend)
fmt_negative(addend) == "-" \o fmt_alt_upper_hex(wrapping_neg64(addend))

\* Lines 99-103.
NameAddend ==
    /\ pc = "reloc_addend"
    /\ LET addend == reloc.target.addend
           ord == cmp_zero64(addend)
       IN  CASE ord = "Greater" -> cb(Basic(fmt_positive(addend)), 100, "reloc_end")
             [] ord = "Less" ->
                   IF overflow_checks /\ neg_overflows_i64(addend)
                   THEN PanicAt(101)
                   ELSE cb(Basic(fmt_negative(addend)), 101, "reloc_end")
             [] OTHER -> Goto("reloc_end")
    /\ UNCHANGED inputs

display_reloc_name == NameSymbol \/ NameAddend

\* ---------------------------------------------------------- specification

Next == display_diff \/ display_reloc \/ display_reloc_name

Spec == Init /\ [][Next]_vars

\* ---------------------------------------------------------------- claims

Done == pc = "done"
HasIns == ins_diff.ins # None
NCalls == Len(calls)

\* The sink calls at the positions that satisfy P, in order.
CallsAt(P(_)) ==
    LET idx == SelectSeq([p \in 1..NCalls |-> p], P)
    IN  [k \in 1..Len(idx) |-> calls[idx[k]]]

\* The source lines of display_diff's own "(" and ")" calls.
OpenLines == {69, 77}
CloseLine == 86
\* The source lines of display_reloc_name's calls and of display_reloc's.
NameLines == {98, 100, 101}
RelocLines == 98..171

\* C1: with no decoded instruction, whatever base_addr, arg_diff, branch_from
\* and branch_to are, the sink is called exactly once, with Eol, and
\* display_diff returns: Ok when that call succeeded (the sink's error when it
\* failed).  The delivered sequence is exactly [Eol].
C1_NoInsYieldsEol ==
    ~HasIns =>
        \/ pc = "start" /\ calls = <<>> /\ result = RUNNING
        \/ /\ Done
           /\ calls = <<Eol>>
           /\ result = (IF sink_err = 0 THEN OK ELSE ERR_SINK)

C1_Witness ==
    /\ ~HasIns /\ Done /\ result = OK /\ calls = <<Eol>>
    /\ ins_diff.branch_from # None /\ ins_diff.branch_to # None
    /\ ins_diff.arg_diff # <<>> /\ base_addr = Addr1000

\* C2: when the sink fails on its k-th call, display_diff has made exactly k
\* sink calls, makes none after it, and returns the sink's error; display_diff
\* returns that error in no other case.  This holds as well when the failing
\* call is made inside display_reloc or display_reloc_name.
C2_SinkFailureAborts ==
    /\ sink_err # 0 => Done /\ result = ERR_SINK /\ NCalls = sink_err
    /\ result = ERR_SINK => sink_err # 0

\* The third call or a later one fails, made by display_reloc_name for a
\* RelocWithBase argument.
C2_Witness ==
    /\ sink_err >= 3 /\ Done /\ result = ERR_SINK
    /\ origin[sink_err] \in NameLines
    /\ Tag(arg) = "RelocWithBase"

\* The base parentheses display_diff itself has opened and closed in the first
\* n sink calls.
Opens(n) == Cardinality({p \in 1..n : origin[p] \in OpenLines})
Closes(n) == Cardinality({p \in 1..n : origin[p] = CloseLine})
WithBaseArgs == {k \in 1..Len(ins.args) : IsWithBase(ins.args[k])}

\* C3: in every successful emission of a decoded instruction, each
\* ArgWithBase / RelocWithBase argument contributes exactly one "(" and one
\* matching ")" of display_diff: as many ")" as "(", and in every prefix of the
\* stream 0 or 1 base parentheses open.
C3_BaseParensMatch ==
    (HasIns /\ Done /\ result = OK) =>
        /\ Opens(NCalls) = Cardinality(WithBaseArgs)
        /\ Closes(NCalls) = Opens(NCalls)
        /\ \A n \in 0..NCalls : Opens(n) - Closes(n) \in {0, 1}

\* Whether a Reloc / RelocWithBase argument meets a relocation of a kind
\* display_reloc has no text for.
UnsupportedKind ==
    /\ \E k \in 1..Len(ins.args) : IsRelocArg(ins.args[k])
    /\ ins.reloc # None
    /\ reloc.kind = "MipsGpRel32"

\* The tokens before the argument section and those after it.
FrameHead ==
    (IF ins.line # None THEN <<Line(ins.line[1])>> ELSE <<>>)
    \o <<Address(wrapping_sub32(ins.address, base_addr))>>
    \o <<IF ins_diff.branch_from # None
         THEN BasicColor(" ~> ", ins_diff.branch_from[1].branch_idx)
         ELSE Spacing(4)>>
    \o <<Opcode(ins.mnemonic, ins.op)>>
FrameTail ==
    (IF ins_diff.branch_to # None
     THEN <<BasicColor(" ~>", ins_diff.branch_to[1].branch_idx)>> ELSE <<>>)
    \o <<Eol>>

\* C4: for a decoded instruction with base_addr <= ins.address, a sink that
\* never fails and no unsupported relocation kind, the tokens outside the
\* argument section are Line (iff there is a source line), Address, the
\* branch-in marker or Spacing(4), Opcode, then the argument tokens, then the
\* branch-out marker (iff branch_to) and Eol, last and once.
C4_FrameTokens ==
    (/\ HasIns /\ Done /\ sink_err = 0
     /\ ~sub_overflows_u32(ins.address, base_addr)
     /\ ~UnsupportedKind) =>
        /\ NCalls >= Len(FrameHead) + Len(FrameTail)
        /\ SubSeq(calls, 1, Len(FrameHead)) = FrameHead
        /\ SubSeq(calls, NCalls - Len(FrameTail) + 1, NCalls) = FrameTail
        /\ \A p \in 1..NCalls :
              arg_of[p] >= 0 <=> Len(FrameHead) < p /\ p <= NCalls - Len(FrameTail)
        /\ Cardinality({p \in 1..NCalls : calls[p] = Eol}) = 1

\* C5: a BranchOffset(offset) argument gives BranchTarget(target) with
\* target = offset + ins.address - base_addr modulo 2^32, for all 32-bit
\* offsets, addresses and bases; the target is the Address token's value plus
\* the displacement.
C5_BranchTargetWraps ==
    HasIns =>
        /\ result # Panic(81)
        /\ \A p \in 1..NCalls :
              origin[p] = 82 =>
                 LET offset == ins.args[arg_of[p] + 1][2]
                     address == CallsAt(LAMBDA q : origin[q] = 45)[1][2]
                 IN  calls[p] = BranchTarget(wrapping_add32(address, offset))

\* C7: display_reloc_name emits Symbol(reloc.target), then for addend > 0 one
\* Basic "+0x" and the hex digits of addend, for addend < 0 one Basic "-0x" and
\* the hex digits of its magnitude (also at the most negative i64), and for
\* addend = 0 nothing more.
C7_AddendToken ==
    (HasIns /\ ins.reloc # None) =>
        LET addend == reloc.target.addend
            sign == cmp_zero64(addend)
            text == IF sign = "Greater"
                    THEN "+0x" \o HexString(HexDigits64(addend), 1, FALSE)
                    ELSE "-0x" \o HexString(HexDigits64(wrapping_neg64(addend)), 1, FALSE)
        IN  /\ result # Panic(101)
            /\ \A p \in 1..NCalls :
                  /\ origin[p] = 98 => calls[p] = Symbol(reloc.target.name)
                  /\ origin[p] \in {100, 101} =>
                        /\ sign # "Equal"
                        /\ origin[p - 1] = 98
                        /\ calls[p] = Basic(text)
            \* once display_reloc_name has returned, a non-zero addend has its token
            /\ \A p \in 1..NCalls :
                  (origin[p] = 98 /\ sign # "Equal" /\ (p < NCalls \/ pc = "reloc_end"))
                     => p < NCalls /\ origin[p + 1] \in {100, 101}

\* C9: a Reloc / RelocWithBase argument of an instruction without relocation
\* record makes display_diff return an explicit error value to its caller; it
\* does not crash.
C9_MissingRelocIsError ==
    (/\ HasIns /\ Done /\ sink_err = 0
     /\ i < Len(ins.args) /\ IsRelocArg(arg) /\ ins.reloc = None) =>
        result = "Err(PreconditionViolation)"

\* display_reloc, called for the argument of loop index k, has returned Ok(()).
RelocReturned(k) ==
    /\ k < Len(ins.args)
    /\ IsRelocArg(ins.args[k + 1])
    /\ \/ k < i
       \/ k = i /\ pc \in {"open_paren", "close_paren"}
       \/ k = i /\ Done /\ NCalls > 0 /\ arg_of[NCalls] = k
                /\ origin[NCalls] \in OpenLines \cup {CloseLine}

\* The sink calls display_reloc made for argument k, and those of them that
\* display_reloc_name made.
RelocCalls(k) == CallsAt(LAMBDA p : arg_of[p] = k /\ origin[p] \in RelocLines)
NameCalls(k) == CallsAt(LAMBDA p : arg_of[p] = k /\ origin[p] \in NameLines)

\* The wrapper the claim gives each kind.
ClaimedPrefix(kind) ==
    CASE kind = "MipsHi16" -> <<Basic("%hi(")>>
      [] kind = "MipsLo16" -> <<Basic("%lo(")>>
      [] kind = "MipsGot16" -> <<Basic("%got(")>>
      [] kind = "MipsCall16" -> <<Basic("%call16(")>>
      [] kind = "MipsGpRel16" -> <<Basic("%gp_rel(")>>
      [] kind = "Absolute" -> <<Basic("[INVALID]")>>
      [] OTHER -> <<>>
ClaimedSuffix(kind) ==
    CASE kind = "PpcAddr16Lo" -> <<Basic("@l")>>
      [] kind = "PpcAddr16Hi" -> <<Basic("@h")>>
      [] kind = "PpcAddr16Ha" -> <<Basic("@ha")>>
      [] kind = "PpcEmbSda21" -> <<Basic("@sda21")>>
      [] kind \in MipsWrapKinds -> <<Basic(")")>>
      [] OTHER -> <<>>

\* C6: with N the tokens of display_reloc_name, a display_reloc that returns
\* has emitted exactly N for PpcRel24, PpcRel14 and Mips26; N and one of "@l",
\* "@h", "@ha", "@sda21" for the four PPC suffix kinds; "%hi(", "%lo(", "%got(",
\* "%call16(" or "%gp_rel(", then N, then ")" for the five MIPS wrapper kinds;
\* the one token "[INVALID]" and no Symbol for Absolute.  Only MipsGpRel32 makes
\* display_reloc fail by itself, and no two kinds share a suffix or a prefix.
C6_RelocWrapperTable ==
    (HasIns /\ ins.reloc # None) =>
        /\ \A k \in 0..(Len(ins.args) - 1) :
              RelocReturned(k) =>
                 /\ reloc.kind # "MipsGpRel32"
                 /\ RelocCalls(k) =
                       ClaimedPrefix(reloc.kind) \o NameCalls(k) \o ClaimedSuffix(reloc.kind)
                 /\ (reloc.kind = "Absolute") = (NameCalls(k) = <<>>)
                 /\ reloc.kind = "Absolute" =>
                       \A p \in 1..NCalls : arg_of[p] = k => calls[p][1] # "Symbol"
        /\ result = ERR_UNIMPLEMENTED => reloc.kind = "MipsGpRel32"
        /\ \A k1, k2 \in PpcSuffixKinds :
              k1 # k2 => reloc_suffix(k1)[1].text # reloc_suffix(k2)[1].text
        /\ \A k1, k2 \in MipsWrapKinds :
              k1 # k2 => reloc_prefix(k1)[1].text # reloc_prefix(k2)[1].text

\* The spec's two examples: @l after the name, and %hi( ) around name and addend.
C6_Witness ==
    /\ HasIns /\ Done /\ result = OK /\ ins.args = <<Reloc>> /\ ins.reloc # None
    /\ \/ reloc.kind = "MipsHi16"
          /\ RelocCalls(0) = <<Basic("%hi("), Symbol("foo"), Basic("+0x4"), Basic(")")>>
       \/ reloc.kind = "PpcAddr16Ha"
          /\ RelocCalls(0) = <<Symbol("foo"), Basic("@ha")>>

\* C8: for a MipsGpRel32 relocation display_reloc calls no sink and returns the
\* "unimplemented" error; display_diff, reaching it through a Reloc or a
\* RelocWithBase argument, returns that error and calls the sink no more: no
\* "(", no ")", no branch-out marker and no Eol follow.
C8_UnsupportedRelocFails ==
    (HasIns /\ ins.reloc # None /\ reloc.kind = "MipsGpRel32") =>
        /\ pc \notin {"reloc_name", "reloc_addend", "reloc_end"}
        /\ \A p \in 1..NCalls : origin[p] \notin RelocLines
        /\ \A k \in 0..(Len(ins.args) - 1) : ~RelocReturned(k)
        /\ (Done /\ sink_err = 0 /\ \E k \in 1..Len(ins.args) : IsRelocArg(ins.args[k]))
              => result = ERR_UNIMPLEMENTED
        /\ result = ERR_UNIMPLEMENTED =>
              /\ Done /\ sink_err = 0
              /\ i < Len(ins.args) /\ IsRelocArg(arg)
              /\ \A p \in 1..NCalls :
                    /\ arg_of[p] = i => origin[p] \in {55, 58}
                    /\ origin[p] \notin {91, 93}
                    /\ arg_of[p] \in -1..i

\* The error comes from a RelocWithBase argument that is not the first one.
C8_Witness ==
    /\ HasIns /\ Done /\ result = ERR_UNIMPLEMENTED
    /\ i = 1 /\ Tag(arg) = "RelocWithBase"
    /\ ins_diff.branch_to # None
    /\ origin[NCalls] = 58

====
